---- MODULE Spec2Model ----
(***************************************************************************)
(* Decision-flow controller of the 20-question decision wizard, together   *)
(* with the generation client it calls and the host credential capability. *)
(*                                                                         *)
(* The repository holds three revisions of the controller and of the       *)
(* generation client:                                                      *)
(*   "V1"  src/App.tsx 17-322   (credential screen, needsKey)              *)
(*         with src/geminiService.ts 8-86    (getAIInstance)               *)
(*   "V2"  src/App.tsx 341-668  (credential check inside the submission)   *)
(*         with src/geminiService.ts 96-171  (createAI)                    *)
(*   "V3"  src/unnamed/part_000 15-105 (structured AnalysisResult); its    *)
(*         generation client "G3" is not among the sources: it is taken    *)
(*         to be createAI and generateQuestions of src/geminiService.ts    *)
(*         96-146, with an analyzeDecision that returns the parsed         *)
(*         AnalysisResult the controller reads.                            *)
(* The revision is fixed in the initial state and never changes.           *)
(*                                                                         *)
(* A step of the model is one event of the single-threaded event loop: a   *)
(* user gesture (which runs the handler up to its first suspension) or     *)
(* the completion of an awaited call (which runs the continuation up to    *)
(* the next suspension).                                                   *)
(***************************************************************************)
EXTENDS Integers, Sequences, FiniteSets, Bags, TLC

VARIABLES
    variant,        \* revision of the controller: "V1", "V2" or "V3"
    hasAistudio,    \* window.aistudio is present in the host
    apiKey,         \* process.env.API_KEY
    stage,          \* useState<AppStage>
    topic,          \* useState('')
    questions,      \* useState<Question[]>([]), whatever JSON.parse returned
    answers,        \* useState<Record<number, string>>({})
    currentIndex,   \* useState(0)
    loadingMessage, \* useState('')
    result,         \* useState<string | null>(null) / analysis in V3
    error,          \* useState<string | null>(null)
    needsKey,       \* useState(false), V1 only
    procs,          \* suspended async functions, each at an await
    lastEvent,      \* the event of the last step (history)
    advances,       \* handleNext runs less handlePrev runs since ANSWERING was
                    \* entered (history)
    lastResponse    \* what the backend answered in the last step (history)

vars == <<variant, hasAistudio, apiKey, stage, topic, questions, answers,
          currentIndex, loadingMessage, result, error, needsKey, procs,
          lastEvent, advances, lastResponse>>

-----------------------------------------------------------------------------
(* Bounds of the model.                                                    *)

\* longest question list the backend returns
MaxQuestions == 2
\* most async functions suspended at the same time
MaxCalls == 2

-----------------------------------------------------------------------------
(* Values.  A string is a sequence of fragments, so that trim(), includes() *)
(* and truthiness are computed; a nullable string carries its null flag.   *)

Null == [isNull |-> TRUE, text |-> <<>>]
Str(s) == [isNull |-> FALSE, text |-> s]

\* JavaScript truthiness of string | null | undefined
Truthy(v) == ~v.isNull /\ v.text # <<>>

\* a || b
OrElse(a, b) == IF Truthy(a) THEN a ELSE b

\* String.prototype.includes on the fragments of a message
Includes(v, fragment) == \E i \in 1..Len(v.text) : v.text[i] = fragment

RECURSIVE TrimStart(_)
TrimStart(s) ==
    IF s # <<>> /\ Head(s) = " " THEN TrimStart(Tail(s)) ELSE s

RECURSIVE TrimEnd(_)
TrimEnd(s) ==
    IF s # <<>> /\ s[Len(s)] = " " THEN TrimEnd(SubSeq(s, 1, Len(s) - 1)) ELSE s

\* String.prototype.trim
Trim(s) == TrimEnd(TrimStart(s))

START == "START"
GENERATING_QUESTIONS == "GENERATING_QUESTIONS"
ANSWERING == "ANSWERING"
ANALYZING == "ANALYZING"
RESULT == "RESULT"

AppStage == {START, GENERATING_QUESTIONS, ANSWERING, ANALYZING, RESULT}

EntityNotFound == "Requested entity was not found."

-----------------------------------------------------------------------------
(* Inputs: what the user types, what the environment holds and what the    *)
(* backend answers.                                                        *)

Topics == {<<>>, <<" ">>, <<" ", "trip">>}

ApiKeys == {Null, Str(<<"undefined">>), Str(<<" ">>), Str(<<"k">>)}

Question(id, text, options) == [id |-> id, text |-> text, options |-> options]

\* question 2 offers an empty option, the others a single option
QuestionOptions(id) == IF id = 2 THEN <<"x", "">> ELSE <<"x">>

QuestionPool ==
    { Question(id, "q" \o ToString(id), QuestionOptions(id)) : id \in 1..MaxQuestions }

\* the question of the pool with this id
PoolQuestion(id) == CHOOSE q \in QuestionPool : q.id = id

\* the lists the backend returns: the first n questions in order, all of them
\* in reverse order, and a list that repeats an id
QuestionLists ==
    {[i \in 1..n |-> PoolQuestion(i)] : n \in 0..MaxQuestions}
    \cup {[i \in 1..MaxQuestions |-> PoolQuestion(MaxQuestions + 1 - i)]}
    \cup {<<PoolQuestion(1), PoolQuestion(1)>>}

\* a JSON value: an array of items, or something that is not an array
JsonArray(items) == [isArray |-> TRUE, items |-> items]
JsonObject == [isArray |-> FALSE, items |-> <<>>]

\* the text of a response: undefined, or an opening delimiter, items, and a
\* closing delimiter
NoText == [defined |-> FALSE, open |-> "", items |-> <<>>, close |-> ""]
Text(open, items, close) ==
    [defined |-> TRUE, open |-> open, items |-> items, close |-> close]

\* JSON.stringify of a question list
Stringify(list) == Text("[", list, "]")

QuestionTexts ==
    {NoText, Text("", <<>>, ""), Text("{", <<>>, "}"), Text("<", <<>>, ">")}
    \cup {Stringify(l) : l \in QuestionLists}
    \cup {Text("[", l, "") : l \in {m \in QuestionLists : Len(m) = 1}}

AnalysisTexts == {NoText, Text("", <<>>, ""), Text("{", <<>>, "}"), Text("<", <<>>, ">")}

\* err.message of a rejection by the backend
BackendErrors ==
    {Null, Str(<<"404", EntityNotFound>>), Str(<<"quota exceeded">>)}

Resolved(text) == [ok |-> TRUE, text |-> text, message |-> Null]
Rejected(message) == [ok |-> FALSE, text |-> NoText, message |-> message]

\* no backend call completed
NoResponse == [ok |-> FALSE, text |-> NoText, message |-> Str(<<"no response">>)]

QuestionResponses ==
    {Resolved(t) : t \in QuestionTexts} \cup {Rejected(m) : m \in BackendErrors}

AnalysisResponses ==
    {Resolved(t) : t \in AnalysisTexts} \cup {Rejected(m) : m \in BackendErrors}

-----------------------------------------------------------------------------
(* Generation client (geminiService).                                      *)

\* !responseText
FalsyText(t) == ~t.defined \/ (t.open = "" /\ t.items = <<>> /\ t.close = "")

Parsed(value) == [ok |-> TRUE, value |-> value]
SyntaxError == [ok |-> FALSE, value |-> JsonObject]

\* JSON.parse: an array needs both brackets, an object both braces
JSONParse(t) ==
    IF t.open = "[" /\ t.close = "]" THEN Parsed(JsonArray(t.items))
    ELSE IF t.open = "{" /\ t.close = "}" /\ t.items = <<>> THEN Parsed(JsonObject)
    ELSE SyntaxError

\* the revision of the generation client a controller revision runs with
Service(v) == IF v = "V1" THEN "G1" ELSE IF v = "V2" THEN "G2" ELSE "G3"

\* getAIInstance: !apiKey || apiKey.trim() === ""
getAIInstanceThrows(key) == ~Truthy(key) \/ Trim(key.text) = <<>>

\* createAI: !apiKey || apiKey === 'undefined' || apiKey.trim() === ''
createAIThrows(key) ==
    ~Truthy(key) \/ key.text = <<"undefined">> \/ Trim(key.text) = <<>>

\* the client constructor throws before any request is made
ClientThrows(service, key) ==
    IF service = "G1" THEN getAIInstanceThrows(key) ELSE createAIThrows(key)

MissingKeyMessage(service) ==
    IF service = "G1"
    THEN Str(<<"API key is not set; check the API_KEY environment variable">>)
    ELSE Str(<<"service configuration is not complete; try again later">>)

EmptyQuestionsMessage(service) ==
    IF service = "G1"
    THEN Str(<<"error while generating questions: the AI response is empty">>)
    ELSE Str(<<"could not generate the questions for the analysis">>)

ParseQuestionsMessage(service) ==
    IF service = "G1"
    THEN Str(<<"error while interpreting the question data">>)
    ELSE Str(<<"error while interpreting the data">>)

NoResultText == Str(<<"no result could be derived">>)

Success(value) == [ok |-> TRUE, value |-> value, message |-> Null]
Failure(message) == [ok |-> FALSE, value |-> JsonObject, message |-> message]

\* generateQuestions(topic): sent is FALSE when the constructor threw
generateQuestions(service, sent, response) ==
    IF ~sent THEN Failure(MissingKeyMessage(service))
    ELSE IF ~response.ok THEN Failure(response.message)
    ELSE IF FalsyText(response.text) THEN Failure(EmptyQuestionsMessage(service))
    ELSE IF ~JSONParse(response.text).ok THEN Failure(ParseQuestionsMessage(service))
    ELSE Success(JSONParse(response.text).value)

\* the characters of a response text, as a string
TextString(t) == IF FalsyText(t) THEN Str(<<>>) ELSE Str(<<t.open, t.close>>)

\* analyzeDecision of G1 and G2: response.text || fallback
analyzeDecisionText(service, sent, response) ==
    IF ~sent THEN Failure(MissingKeyMessage(service))
    ELSE IF ~response.ok THEN Failure(response.message)
    ELSE Success(OrElse(TextString(response.text), NoResultText))

\* analyzeDecision of G3 returns an AnalysisResult parsed from the response
analyzeDecisionStructured(service, sent, response) ==
    IF ~sent THEN Failure(MissingKeyMessage(service))
    ELSE IF ~response.ok THEN Failure(response.message)
    ELSE IF FalsyText(response.text) THEN Failure(EmptyQuestionsMessage(service))
    ELSE IF ~JSONParse(response.text).ok THEN Failure(ParseQuestionsMessage(service))
    ELSE Success(Str(<<"AnalysisResult">>))

\* `${answers[q.id]}`: a missing entry prints as undefined
AnswerText(recorded, id) == IF id \in DOMAIN recorded THEN recorded[id] ELSE "undefined"

\* `Q: ${q.text} | A: ${answers[q.id]}`
TranscriptLine(q, recorded) == <<"Q: ", q.text, " | A: ", AnswerText(recorded, q.id)>>

\* Array.prototype.join on sequences of fragments
RECURSIVE Join(_, _)
Join(lines, separator) ==
    IF lines = <<>> THEN <<>>
    ELSE IF Len(lines) = 1 THEN lines[1]
    ELSE lines[1] \o <<separator>> \o Join(Tail(lines), separator)

\* a transcript that leaves out the questions without an answer
ContextOfAnswered(list, recorded) ==
    Join(SelectSeq([i \in 1..Len(list) |-> TranscriptLine(list[i], recorded)],
                   LAMBDA line : line[4] # "undefined"), "\n")

\* questions.map(q => `Q: ... | A: ...`).join('\n')
Context(list, recorded) ==
    Join([i \in 1..Len(list) |-> TranscriptLine(list[i], recorded)], "\n")

analyzeDecision(service, sent, response) ==
    IF service = "G3" THEN analyzeDecisionStructured(service, sent, response)
    ELSE analyzeDecisionText(service, sent, response)

-----------------------------------------------------------------------------
(* Messages the controller shows.                                          *)

SelectKeyAgain == Str(<<"API key not found or billing setup needed; select again">>)
RetryStart ==
    IF variant = "V2" THEN Str(<<"retrying the system connection; press start once more">>)
    ELSE Str(<<"system configuration updated; press start once more">>)
ConnectionTrouble == Str(<<"the service connection is not smooth; try again later">>)
GenerationFallback ==
    IF variant = "V1" THEN Str(<<"an error occurred">>)
    ELSE Str(<<"a problem occurred while handling the request">>)
AnalysisFallback == Str(<<"an error occurred during the analysis">>)
AnalysisFailed == Str(<<"a problem occurred while analysing the result; try again">>)

GeneratingMessage == Str(<<"generating the 20 questions">>)
AnalyzingMessage == Str(<<"analysing the answers">>)

\* err.message && err.message.includes("Requested entity was not found.")
IsEntityNotFound(message) == Truthy(message) /\ Includes(message, EntityNotFound)

-----------------------------------------------------------------------------
(* Suspended async functions.                                              *)

Proc(kind, pc, t, sent) == [kind |-> kind, pc |-> pc, topic |-> t, sent |-> sent]

\* the suspended functions form a bag: their completions come in any order
Suspend(bag, p) == bag (+) SetToBag({p})
Remove(bag, p) == bag (-) SetToBag({p})
Replace(bag, p, q) == Suspend(Remove(bag, p), q)
Suspended == BagToSet(procs)

\* isKeyMissing / isMissing of the controller
isMissing(key) ==
    ~Truthy(key) \/ key.text = <<"undefined">> \/ Trim(key.text) = <<>>

Init ==
    /\ variant \in {"V1", "V2", "V3"}
    /\ hasAistudio \in BOOLEAN
    /\ apiKey \in ApiKeys
    /\ stage = START
    /\ topic = <<>>
    /\ questions = JsonArray(<<>>)
    /\ answers = <<>>
    /\ currentIndex = 0
    /\ loadingMessage = Str(<<>>)
    /\ result = Null
    /\ error = Null
    /\ needsKey = FALSE
    /\ procs = IF variant = "V1" /\ isMissing(apiKey) /\ hasAistudio
               THEN SetToBag({Proc("checkApiKey", "hasSelectedApiKey", <<>>, FALSE)})
               ELSE EmptyBag
    /\ lastEvent = "mount"
    /\ advances = 0
    /\ lastResponse = NoResponse

-----------------------------------------------------------------------------
(* What the render shows, and which buttons it disables.                   *)

\* if (needsKey) return <credential screen>: nothing of the flow is shown
FlowScreen == ~needsKey

StartRendered == FlowScreen /\ stage = START

\* disabled={!topic.trim()}
SubmitDisabled == Trim(topic) = <<>>

\* stage === AppStage.ANSWERING && questions.length > 0
AnsweringRendered ==
    /\ FlowScreen
    /\ stage = ANSWERING
    /\ questions.isArray
    /\ Len(questions.items) > 0
    /\ currentIndex < Len(questions.items)

\* questions[currentIndex]
CurrentQuestion == questions.items[currentIndex + 1]

\* answers[id] is a non-empty string
HasTruthyAnswer(id) == id \in DOMAIN answers /\ answers[id] # ""

\* a bound that lets the index run past the last question
NotLastOffByOne == currentIndex < Len(questions.items)

\* currentIndex < questions.length - 1
NotLast == currentIndex < Len(questions.items) - 1

\* an advance button that asks for an answer on the last question only
NextDisabledOnLastOnly == ~NotLast /\ ~HasTruthyAnswer(CurrentQuestion.id)

\* an advance button that asks for an answer on the first question only
NextDisabledOnFirstOnly == currentIndex = 0 /\ ~HasTruthyAnswer(CurrentQuestion.id)

\* disabled={!answers[questions[currentIndex].id]}
NextDisabled == ~HasTruthyAnswer(CurrentQuestion.id)

\* disabled={currentIndex === 0}
PrevDisabled == currentIndex = 0

\* stage === AppStage.RESULT && result
ResultRendered == FlowScreen /\ stage = RESULT /\ Truthy(result)

\* the reset button is part of the result block
ResetButtonRendered == ResultRendered

\* {error && ...}
ErrorRendered == FlowScreen /\ Truthy(error)

-----------------------------------------------------------------------------
(* User gestures.                                                          *)

\* onChange={(e) => setTopic(e.target.value)}
SetTopic(t) ==
    /\ StartRendered
    /\ t # topic
    /\ topic' = t
    /\ lastEvent' = "setTopic"
    /\ lastResponse' = NoResponse
    /\ UNCHANGED <<advances, variant, hasAistudio, apiKey, stage, questions, answers,
                   currentIndex, loadingMessage, result, error, needsKey, procs>>

\* onClick={() => setError(null)}
DismissError ==
    /\ ErrorRendered
    /\ error' = Null
    /\ lastEvent' = "dismissError"
    /\ lastResponse' = NoResponse
    /\ UNCHANGED <<advances, variant, hasAistudio, apiKey, stage, topic, questions, answers,
                   currentIndex, loadingMessage, result, needsKey, procs>>

\* a click on a disabled button runs no handler
ClickDisabled(event) ==
    /\ lastEvent' = event
    /\ lastResponse' = NoResponse
    /\ UNCHANGED <<advances, variant, hasAistudio, apiKey, stage, topic, questions, answers,
                   currentIndex, loadingMessage, result, error, needsKey, procs>>

\* setStage(GENERATING_QUESTIONS); setLoadingMessage(...); generateQuestions(topic)
\* up to the await: the client is constructed with the key of that moment
CallGenerateQuestions(t, key) ==
    Proc("startDecisionProcess", "generateQuestions", t,
         ~ClientThrows(Service(variant), key))

\* the submission awaits the host before it changes the stage
AwaitsHostFirst == variant # "V1" /\ isMissing(apiKey) /\ hasAistudio

startDecisionProcess ==
    /\ StartRendered
    /\ ~SubmitDisabled
    /\ BagCardinality(procs) < MaxCalls
    /\ error' = Null
    /\ IF AwaitsHostFirst
       THEN /\ procs' = Suspend(procs, Proc("startDecisionProcess", "hasSelectedApiKey",
                                           topic, FALSE))
            /\ UNCHANGED <<stage, loadingMessage>>
       ELSE /\ procs' = Suspend(procs, CallGenerateQuestions(topic, apiKey))
            /\ stage' = GENERATING_QUESTIONS
            /\ loadingMessage' = GeneratingMessage
    /\ lastEvent' = "startDecisionProcess"
    /\ lastResponse' = NoResponse
    /\ UNCHANGED <<advances, variant, hasAistudio, apiKey, topic, questions, answers,
                   currentIndex, result, needsKey>>

ClickSubmit ==
    \/ startDecisionProcess
    \/ StartRendered /\ SubmitDisabled /\ ClickDisabled("submit disabled")

\* a setAnswers that forgets the spread of the previous map
WithAnswerOnly(prev, id, option) == [k \in {id} |-> option]

\* setAnswers(prev => ({ ...prev, [questions[currentIndex].id]: option }))
WithAnswer(prev, id, option) ==
    [k \in DOMAIN prev \cup {id} |-> IF k = id THEN option ELSE prev[k]]

handleAnswer(option) ==
    /\ AnsweringRendered
    /\ answers' = WithAnswer(answers, CurrentQuestion.id, option)
    /\ lastEvent' = "handleAnswer"
    /\ lastResponse' = NoResponse
    /\ UNCHANGED <<advances, variant, hasAistudio, apiKey, stage, topic, questions,
                   currentIndex, loadingMessage, result, error, needsKey, procs>>

ClickOption ==
    /\ AnsweringRendered
    /\ \E i \in 1..Len(CurrentQuestion.options) : handleAnswer(CurrentQuestion.options[i])

\* finishAnswering up to the await of analyzeDecision(topic, questions, answers)
finishAnswering ==
    /\ stage' = ANALYZING
    /\ loadingMessage' = AnalyzingMessage
    /\ procs' = Suspend(procs, Proc("finishAnswering", "analyzeDecision", topic,
                                   ~ClientThrows(Service(variant), apiKey)))
    /\ UNCHANGED currentIndex

handleNext ==
    /\ IF NotLast
       THEN /\ currentIndex' = currentIndex + 1
            /\ UNCHANGED <<stage, loadingMessage, procs>>
       ELSE /\ BagCardinality(procs) < MaxCalls
            /\ finishAnswering
    /\ lastEvent' = "handleNext"
    /\ advances' = advances + 1
    /\ lastResponse' = NoResponse
    /\ UNCHANGED <<variant, hasAistudio, apiKey, topic, questions, answers,
                   result, error, needsKey>>

ClickNext ==
    /\ AnsweringRendered
    /\ \/ ~NextDisabled /\ handleNext
       \/ NextDisabled /\ ClickDisabled("next disabled")

\* a go-back that discards the answer of the question it leaves
handlePrevDropsAnswer ==
    /\ IF currentIndex > 0
       THEN currentIndex' = currentIndex - 1 /\ advances' = advances - 1
       ELSE UNCHANGED <<currentIndex, advances>>
    /\ answers' = [k \in DOMAIN answers \ {CurrentQuestion.id} |-> answers[k]]
    /\ lastEvent' = "handlePrev"
    /\ lastResponse' = NoResponse
    /\ UNCHANGED <<variant, hasAistudio, apiKey, stage, topic, questions,
                   loadingMessage, result, error, needsKey, procs>>

handlePrev ==
    /\ IF currentIndex > 0
       THEN currentIndex' = currentIndex - 1 /\ advances' = advances - 1
       ELSE UNCHANGED <<currentIndex, advances>>
    /\ lastEvent' = "handlePrev"
    /\ lastResponse' = NoResponse
    /\ UNCHANGED <<variant, hasAistudio, apiKey, stage, topic, questions, answers,
                   loadingMessage, result, error, needsKey, procs>>

ClickPrev ==
    /\ AnsweringRendered
    /\ \/ ~PrevDisabled /\ handlePrev
       \/ PrevDisabled /\ ClickDisabled("prev disabled")

\* a reset that forgets to clear the answer map
resetAppKeepsAnswers ==
    /\ ResultRendered
    /\ stage' = START
    /\ topic' = <<>>
    /\ questions' = JsonArray(<<>>)
    /\ currentIndex' = 0
    /\ result' = Null
    /\ error' = Null
    /\ lastEvent' = "resetApp"
    /\ advances' = 0
    /\ lastResponse' = NoResponse
    /\ UNCHANGED <<answers, variant, hasAistudio, apiKey, loadingMessage, needsKey, procs>>

\* a reset button that is shown on every screen of the flow
resetAppOnEveryScreen ==
    /\ FlowScreen
    /\ stage' = START
    /\ topic' = <<>>
    /\ questions' = JsonArray(<<>>)
    /\ answers' = <<>>
    /\ currentIndex' = 0
    /\ result' = Null
    /\ error' = Null
    /\ lastEvent' = "resetApp"
    /\ advances' = 0
    /\ lastResponse' = NoResponse
    /\ UNCHANGED <<variant, hasAistudio, apiKey, loadingMessage, needsKey, procs>>

resetApp ==
    /\ ResultRendered
    /\ stage' = START
    /\ topic' = <<>>
    /\ questions' = JsonArray(<<>>)
    /\ answers' = <<>>
    /\ currentIndex' = 0
    /\ result' = Null
    /\ error' = Null
    /\ lastEvent' = "resetApp"
    /\ advances' = 0
    /\ lastResponse' = NoResponse
    /\ UNCHANGED <<variant, hasAistudio, apiKey, loadingMessage, needsKey, procs>>

\* the button of the credential screen
handleOpenKeyDialog ==
    /\ needsKey
    /\ IF hasAistudio
       THEN /\ BagCardinality(procs) < MaxCalls
            /\ procs' = Suspend(procs, Proc("handleOpenKeyDialog", "openSelectKey",
                                           <<>>, FALSE))
       ELSE UNCHANGED procs
    /\ lastEvent' = "handleOpenKeyDialog"
    /\ lastResponse' = NoResponse
    /\ UNCHANGED <<advances, variant, hasAistudio, apiKey, stage, topic, questions, answers,
                   currentIndex, loadingMessage, result, error, needsKey>>

-----------------------------------------------------------------------------
(* Completions of awaited calls.                                           *)

\* what the host answers to hasSelectedApiKey()
HasKeyAnswers == {"true", "false", "rejected"}

\* what the host answers to openSelectKey()
SelectKeyAnswers == {"resolved", "rejected"}

\* process.env.API_KEY after openSelectKey(): the host may have injected a key
KeysAfter(answer) == IF answer = "resolved" THEN {apiKey, Str(<<"k">>)} ELSE {apiKey}

\* checkApiKey of the mount effect (V1)
checkApiKeyDone(p) ==
    /\ p.kind = "checkApiKey"
    /\ \E answer \in HasKeyAnswers :
          /\ needsKey' = IF answer = "false" THEN TRUE ELSE needsKey
          /\ lastEvent' = "checkApiKey " \o answer
    /\ procs' = Remove(procs, p)
    /\ lastResponse' = NoResponse
    /\ UNCHANGED <<advances, variant, hasAistudio, apiKey, stage, topic, questions, answers,
                   currentIndex, loadingMessage, result, error>>

\* a key dialog that leaves the credential screen only when a key was chosen
handleOpenKeyDialogDoneIfChosen(p) ==
    /\ p.kind = "handleOpenKeyDialog"
    /\ \E answer \in SelectKeyAnswers :
          /\ apiKey' \in KeysAfter(answer)
          /\ needsKey' = IF answer = "resolved" /\ ~isMissing(apiKey') THEN FALSE ELSE needsKey
          /\ lastEvent' = "handleOpenKeyDialog " \o answer
    /\ procs' = Remove(procs, p)
    /\ lastResponse' = NoResponse
    /\ UNCHANGED <<advances, variant, hasAistudio, stage, topic, questions, answers,
                   currentIndex, loadingMessage, result, error>>

\* handleOpenKeyDialog after await window.aistudio.openSelectKey() (V1)
handleOpenKeyDialogDone(p) ==
    /\ p.kind = "handleOpenKeyDialog"
    /\ \E answer \in SelectKeyAnswers :
          /\ needsKey' = IF answer = "resolved" THEN FALSE ELSE needsKey
          /\ apiKey' \in KeysAfter(answer)
          /\ lastEvent' = "handleOpenKeyDialog " \o answer
    /\ procs' = Remove(procs, p)
    /\ lastResponse' = NoResponse
    /\ UNCHANGED <<advances, variant, hasAistudio, stage, topic, questions, answers,
                   currentIndex, loadingMessage, result, error>>

\* a host check whose rejection aborts the submission
hasSelectedApiKeyDoneAborts(p) ==
    /\ p.kind = "startDecisionProcess"
    /\ p.pc = "hasSelectedApiKey"
    /\ \E answer \in HasKeyAnswers :
          /\ IF answer = "false"
             THEN /\ procs' = Replace(procs, p, [p EXCEPT !.pc = "openSelectKey"])
                  /\ UNCHANGED <<stage, loadingMessage>>
             ELSE IF answer = "rejected"
             THEN /\ procs' = Remove(procs, p)
                  /\ UNCHANGED <<stage, loadingMessage>>
             ELSE /\ procs' = Replace(procs, p,
                                      CallGenerateQuestions(p.topic, apiKey))
                  /\ stage' = GENERATING_QUESTIONS
                  /\ loadingMessage' = GeneratingMessage
          /\ lastEvent' = "hasSelectedApiKey " \o answer
    /\ lastResponse' = NoResponse
    /\ UNCHANGED <<advances, variant, hasAistudio, apiKey, topic, questions, answers,
                   currentIndex, result, error, needsKey>>

\* startDecisionProcess after await window.aistudio.hasSelectedApiKey() (V2, V3)
hasSelectedApiKeyDone(p) ==
    /\ p.kind = "startDecisionProcess"
    /\ p.pc = "hasSelectedApiKey"
    /\ \E answer \in HasKeyAnswers :
          /\ IF answer = "false"
             THEN /\ procs' = Replace(procs, p, [p EXCEPT !.pc = "openSelectKey"])
                  /\ UNCHANGED <<stage, loadingMessage>>
             ELSE /\ procs' = Replace(procs, p,
                                      CallGenerateQuestions(p.topic, apiKey))
                  /\ stage' = GENERATING_QUESTIONS
                  /\ loadingMessage' = GeneratingMessage
          /\ lastEvent' = "hasSelectedApiKey " \o answer
    /\ lastResponse' = NoResponse
    /\ UNCHANGED <<advances, variant, hasAistudio, apiKey, topic, questions, answers,
                   currentIndex, result, error, needsKey>>

\* startDecisionProcess after await window.aistudio.openSelectKey() (V2, V3);
\* a rejection is caught and logged
openSelectKeyDone(p) ==
    /\ p.kind = "startDecisionProcess"
    /\ p.pc = "openSelectKey"
    /\ \E answer \in SelectKeyAnswers :
          /\ apiKey' \in KeysAfter(answer)
          /\ lastEvent' = "openSelectKey " \o answer
    /\ procs' = Replace(procs, p, CallGenerateQuestions(p.topic, apiKey'))
    /\ stage' = GENERATING_QUESTIONS
    /\ loadingMessage' = GeneratingMessage
    /\ lastResponse' = NoResponse
    /\ UNCHANGED <<advances, variant, hasAistudio, topic, questions, answers,
                   currentIndex, result, error, needsKey>>

\* the responses a pending call can complete with
ResponsesTo(proc, responses) == IF proc.sent THEN responses ELSE {NoResponse}

\* a try block that also empties the answer map for the new list
generateQuestionsResolvedClearsAnswers(p, generated) ==
    /\ questions' = generated
    /\ answers' = <<>>
    /\ stage' = ANSWERING
    /\ currentIndex' = 0
    /\ procs' = Remove(procs, p)
    /\ lastEvent' = "generateQuestions resolved"
    /\ advances' = 0
    /\ UNCHANGED <<variant, hasAistudio, apiKey, topic, loadingMessage,
                   result, error, needsKey>>

\* try { setQuestions(generated); setStage(ANSWERING); setCurrentIndex(0) }
generateQuestionsResolved(p, generated) ==
    /\ questions' = generated
    /\ stage' = ANSWERING
    /\ currentIndex' = 0
    /\ procs' = Remove(procs, p)
    /\ lastEvent' = "generateQuestions resolved"
    /\ advances' = 0
    /\ UNCHANGED <<variant, hasAistudio, apiKey, topic, answers, loadingMessage,
                   result, error, needsKey>>

\* a generation catch that also empties the topic, as a reset would
generateQuestionsRejectedClearsTopic(p, message) ==
    /\ IF variant = "V1"
       THEN /\ IF IsEntityNotFound(message)
               THEN error' = SelectKeyAgain /\ needsKey' = TRUE
               ELSE error' = OrElse(message, GenerationFallback) /\ UNCHANGED needsKey
            /\ stage' = START
            /\ procs' = Remove(procs, p)
            /\ lastEvent' = "generateQuestions rejected"
       ELSE IF IsEntityNotFound(message) /\ hasAistudio
       THEN /\ procs' = Replace(procs, p, [p EXCEPT !.pc = "catch openSelectKey"])
            /\ lastEvent' = "generateQuestions rejected, awaiting openSelectKey"
            /\ UNCHANGED <<error, needsKey, stage>>
       ELSE /\ error' = IF IsEntityNotFound(message) THEN ConnectionTrouble
                        ELSE OrElse(message, GenerationFallback)
            /\ stage' = START
            /\ procs' = Remove(procs, p)
            /\ lastEvent' = "generateQuestions rejected"
            /\ UNCHANGED needsKey
    /\ topic' = <<>>
    /\ UNCHANGED <<advances, variant, hasAistudio, apiKey, questions, answers,
                   currentIndex, loadingMessage, result>>

\* catch (err) of startDecisionProcess
generateQuestionsRejected(p, message) ==
    /\ IF variant = "V1"
       THEN /\ IF IsEntityNotFound(message)
               THEN error' = SelectKeyAgain /\ needsKey' = TRUE
               ELSE error' = OrElse(message, GenerationFallback) /\ UNCHANGED needsKey
            /\ stage' = START
            /\ procs' = Remove(procs, p)
            /\ lastEvent' = "generateQuestions rejected"
       ELSE IF IsEntityNotFound(message) /\ hasAistudio
       THEN /\ procs' = Replace(procs, p, [p EXCEPT !.pc = "catch openSelectKey"])
            /\ lastEvent' = "generateQuestions rejected, awaiting openSelectKey"
            /\ UNCHANGED <<error, needsKey, stage>>
       ELSE /\ error' = IF IsEntityNotFound(message) THEN ConnectionTrouble
                        ELSE OrElse(message, GenerationFallback)
            /\ stage' = START
            /\ procs' = Remove(procs, p)
            /\ lastEvent' = "generateQuestions rejected"
            /\ UNCHANGED needsKey
    /\ UNCHANGED <<advances, variant, hasAistudio, apiKey, topic, questions, answers,
                   currentIndex, loadingMessage, result>>

\* startDecisionProcess after await generateQuestions(topic)
generateQuestionsDone(p) ==
    /\ p.kind = "startDecisionProcess"
    /\ p.pc = "generateQuestions"
    /\ \E response \in ResponsesTo(p, QuestionResponses) :
          LET generated == generateQuestions(Service(variant), p.sent, response)
          IN  /\ lastResponse' = response
              /\ IF generated.ok
                 THEN generateQuestionsResolved(p, generated.value)
                 ELSE generateQuestionsRejected(p, generated.message)

\* the catch block of startDecisionProcess after await openSelectKey() (V2, V3):
\* a rejection here leaves the async function
catchOpenSelectKeyDone(p) ==
    /\ p.kind = "startDecisionProcess"
    /\ p.pc = "catch openSelectKey"
    /\ \E answer \in SelectKeyAnswers :
          /\ apiKey' \in KeysAfter(answer)
          /\ IF answer = "resolved"
             THEN error' = RetryStart /\ stage' = START
             ELSE UNCHANGED <<error, stage>>
          /\ lastEvent' = "catch openSelectKey " \o answer
    /\ procs' = Remove(procs, p)
    /\ lastResponse' = NoResponse
    /\ UNCHANGED <<advances, variant, hasAistudio, topic, questions, answers, currentIndex,
                   loadingMessage, result, needsKey>>

\* the message the catch block of finishAnswering passes to setError
AnalysisErrorMessage(message) ==
    IF variant = "V1"
    THEN IF IsEntityNotFound(message) THEN SelectKeyAgain
         ELSE OrElse(message, AnalysisFallback)
    ELSE AnalysisFailed

\* catch (err) of finishAnswering
analyzeDecisionRejected(message) ==
    /\ error' = AnalysisErrorMessage(message)
    /\ needsKey' = IF variant = "V1" /\ IsEntityNotFound(message) THEN TRUE ELSE needsKey
    /\ stage' = START
    /\ lastEvent' = "analyzeDecision rejected"
    /\ UNCHANGED result

\* finishAnswering after await analyzeDecision(topic, questions, answers)
analyzeDecisionDone(p) ==
    /\ p.kind = "finishAnswering"
    /\ \E response \in ResponsesTo(p, AnalysisResponses) :
          LET finalResult == analyzeDecision(Service(variant), p.sent, response)
          IN  /\ lastResponse' = response
              /\ IF finalResult.ok
                 THEN /\ result' = finalResult.value
                      /\ stage' = RESULT
                      /\ lastEvent' = "analyzeDecision resolved"
                      /\ UNCHANGED <<error, needsKey>>
                 ELSE analyzeDecisionRejected(finalResult.message)
    /\ procs' = Remove(procs, p)
    /\ UNCHANGED <<advances, variant, hasAistudio, apiKey, topic, questions, answers,
                   currentIndex, loadingMessage>>

-----------------------------------------------------------------------------

Next ==
    \/ \E t \in Topics : SetTopic(t)
    \/ DismissError
    \/ ClickSubmit
    \/ ClickOption
    \/ ClickNext
    \/ ClickPrev
    \/ resetApp
    \/ handleOpenKeyDialog
    \/ \E p \in Suspended : checkApiKeyDone(p)
    \/ \E p \in Suspended : handleOpenKeyDialogDone(p)
    \/ \E p \in Suspended : hasSelectedApiKeyDone(p)
    \/ \E p \in Suspended : openSelectKeyDone(p)
    \/ \E p \in Suspended : generateQuestionsDone(p)
    \/ \E p \in Suspended : catchOpenSelectKeyDone(p)
    \/ \E p \in Suspended : analyzeDecisionDone(p)

Spec == Init /\ [][Next]_vars

-----------------------------------------------------------------------------
(* Properties of the decision flow.                                        *)

QuestionCount == Len(questions.items)

\* a question as the data model describes it
WellFormedQuestion(q) ==
    /\ q.id > 0
    /\ q.text # ""
    /\ Len(q.options) > 0
    /\ \A i \in 1..Len(q.options) : q.options[i] # ""
    /\ \A i, j \in 1..Len(q.options) : i # j => q.options[i] # q.options[j]

WellFormedList(list) ==
    /\ Len(list) >= 1
    /\ \A i \in 1..Len(list) : WellFormedQuestion(list[i])
    /\ \A i, j \in 1..Len(list) : i # j => list[i].id # list[j].id

\* the last step received a well-formed question list from the backend
ReceivedWellFormedList ==
    /\ lastEvent = "generateQuestions resolved"
    /\ lastResponse.ok
    /\ JSONParse(lastResponse.text).ok
    /\ JSONParse(lastResponse.text).value.isArray
    /\ WellFormedList(JSONParse(lastResponse.text).value.items)

\* C1: a submission from START that receives a well-formed question list
\* puts the flow in ANSWERING at index 0 with an empty answer map, also when
\* START was reached after a failed generation or a failed analysis.
C1_SubmitEntersAnsweringClean ==
    ReceivedWellFormedList =>
        /\ stage = ANSWERING
        /\ currentIndex = 0
        /\ DOMAIN answers = {}

\* C2: with N >= 1 questions the index stays within 0..N-1 while answering and
\* equals the net number of advances; the advance at index N-1 enters
\* ANALYZING without incrementing, after exactly N net advances.
C2_AdvancesReachAnalyzing ==
    /\ (stage = ANSWERING /\ questions.isArray /\ QuestionCount >= 1) =>
          (advances = currentIndex /\ currentIndex <= QuestionCount - 1)
    /\ (lastEvent = "handleNext" /\ stage = ANALYZING) =>
          (advances = QuestionCount /\ currentIndex = QuestionCount - 1)

\* the last question of a list of MaxQuestions questions was advanced past
C2_Witness ==
    /\ lastEvent = "handleNext"
    /\ stage = ANALYZING
    /\ QuestionCount = MaxQuestions
    /\ advances = MaxQuestions

\* the step is a click on the advance button
AdvanceClicked == lastEvent' \in {"handleNext", "next disabled"}

\* C3: in ANSWERING, an advance with no recorded answer for the current
\* question changes neither the index nor the stage, at every index.
C3_AdvanceNeedsAnswer ==
    [][(AnsweringRendered /\ CurrentQuestion.id \notin DOMAIN answers /\ AdvanceClicked)
         => (currentIndex' = currentIndex /\ stage' = stage)]_vars

\* an advance was refused at an index that is not the last
C3_Witness ==
    /\ lastEvent = "next disabled"
    /\ AnsweringRendered
    /\ CurrentQuestion.id \notin DOMAIN answers
    /\ currentIndex < QuestionCount - 1

\* the step is a click on the go-back button
BackClicked == lastEvent' \in {"handlePrev", "prev disabled"}

\* C4: going back at index 0 changes nothing, at index k > 0 it sets the index
\* to k-1; the answer map, the question list and the stage are unchanged.
C4_GoBackKeepsAnswers ==
    [][(stage = ANSWERING /\ BackClicked) =>
          /\ currentIndex' = (IF currentIndex > 0 THEN currentIndex - 1 ELSE 0)
          /\ answers' = answers
          /\ questions' = questions
          /\ stage' = stage]_vars

\* the user went back to the first question with an answer recorded
C4_Witness ==
    /\ lastEvent = "handlePrev"
    /\ stage = ANSWERING
    /\ currentIndex = 0
    /\ DOMAIN answers # {}

\* C5: after resetApp the flow state is the initial one: stage START, empty
\* topic, no questions, empty answer map, index 0, no result, no error.
C5_ResetRestoresInitialState ==
    lastEvent = "resetApp" =>
        /\ stage = START
        /\ topic = <<>>
        /\ questions = JsonArray(<<>>)
        /\ DOMAIN answers = {}
        /\ currentIndex = 0
        /\ result = Null
        /\ error = Null

\* a reset ran (from RESULT, after a full round)
C5_Witness == lastEvent = "resetApp" /\ stage = START /\ advances = 0

\* C6: while the stage is ANSWERING the index is within 0..questionCount-1,
\* for every question list the backend returns.
C6_IndexWithinQuestions ==
    stage = ANSWERING =>
        /\ questions.isArray
        /\ 0 <= currentIndex
        /\ currentIndex <= QuestionCount - 1

\* the last step received text that is not JSON
ReceivedNonJson ==
    /\ lastEvent = "generateQuestions rejected"
    /\ lastResponse.ok
    /\ ~FalsyText(lastResponse.text)
    /\ ~JSONParse(lastResponse.text).ok

\* C7: after a non-JSON response to a question request the flow is in START
\* with a non-empty error and holds no question list, also when a list of an
\* earlier round existed.
C7_ParseFailureLeavesNoQuestions ==
    ReceivedNonJson =>
        /\ stage = START
        /\ Truthy(error)
        /\ questions = JsonArray(<<>>)

\* the rejections of an analysis request that are not an invalid credential
OtherAnalysisFailures ==
    {m \in BackendErrors : ~IsEntityNotFound(m)} \cup {MissingKeyMessage(Service(variant))}

\* C8: an analysis rejected with the entity-not-found error returns to START
\* with a message that no other analysis failure shows.
C8_InvalidCredentialMessageIsDistinct ==
    (lastEvent = "analyzeDecision rejected" /\ IsEntityNotFound(lastResponse.message)) =>
        /\ stage = START
        /\ Truthy(error)
        /\ \A m \in OtherAnalysisFailures : error # AnalysisErrorMessage(m)

\* the events that end the handling of a rejected request
FailureHandled ==
    lastEvent \in {"generateQuestions rejected", "analyzeDecision rejected",
                   "catch openSelectKey resolved", "catch openSelectKey rejected"}

\* C9: when the handling of a rejected generation or analysis request ends,
\* the flow is in START with a non-empty error, whether the host call made
\* during recovery resolved or rejected.
C9_FailureEndsInStart == FailureHandled => (stage = START /\ Truthy(error))

\* a gesture that changes the state is available
UserCanAct ==
    \/ StartRendered
    \/ ErrorRendered
    \/ AnsweringRendered
    \/ ResultRendered
    \/ needsKey /\ hasAistudio

\* C10: whenever no call is in flight, some user action is enabled.
C10_NeverStuck == BagCardinality(procs) = 0 => UserCanAct

\* the suspended submissions whose backend request is on the wire
BackendCalls ==
    {p \in Suspended : p.pc \in {"generateQuestions", "analyzeDecision"} /\ p.sent}

\* the number of backend requests in flight, counting equal ones separately
InFlight == BagCardinality([p \in BackendCalls |-> CopiesIn(p, procs)])

\* C11: no two generateQuestions / analyzeDecision calls are in flight
\* together, also when a submission awaited the host credential check.
C11_OneCallInFlight == InFlight <= 1

\* the stages that show the loading screen
LoadingStages == {GENERATING_QUESTIONS, ANALYZING}

\* the steps that run a handler of submit, select option, advance, go back, reset
UserActionEvents ==
    {"startDecisionProcess", "handleAnswer", "handleNext", "handlePrev", "resetApp"}

\* the steps that end a backend call, or the handling of its rejection
CallCompletionEvents ==
    {"generateQuestions resolved", "generateQuestions rejected",
     "analyzeDecision resolved", "analyzeDecision rejected",
     "catch openSelectKey resolved"}

\* C12: in GENERATING_QUESTIONS and ANALYZING no step is one of the user
\* actions submit, select option, advance, go back or reset, and the stage
\* changes only in a step that resolves or rejects a backend call.
C12_LoadingRunsToCompletion ==
    [][(stage \in LoadingStages) =>
          (/\ lastEvent' \notin UserActionEvents
           /\ (stage' # stage => lastEvent' \in CallCompletionEvents))]_vars

\* the edges of the stage machine other than reset
StageEdges ==
    {<<START, GENERATING_QUESTIONS>>, <<GENERATING_QUESTIONS, ANSWERING>>,
     <<GENERATING_QUESTIONS, START>>, <<ANSWERING, ANALYZING>>,
     <<ANALYZING, RESULT>>, <<ANALYZING, START>>}

\* C13: every change of stage follows one of the edges START to
\* GENERATING_QUESTIONS, GENERATING_QUESTIONS to ANSWERING or START, ANSWERING
\* to ANALYZING, ANALYZING to RESULT or START, or is a reset to START.
C13_StageEdges ==
    [][(stage' # stage) =>
          \/ <<stage, stage'>> \in StageEdges
          \/ lastEvent' = "resetApp" /\ stage' = START]_vars

\* C14 as stated: the reset action is available in every stage of the flow.
C14_ResetInEveryStage == FlowScreen => ResetButtonRendered

\* C14: the reset action is offered on the result screen only (stage RESULT
\* with a result present), and a reset leads to START with topic, question
\* list, answers, index, result and error cleared.
C14_ResetOnlyFromResult ==
    [][(lastEvent' = "resetApp") =>
          /\ stage = RESULT
          /\ Truthy(result)
          /\ stage' = START
          /\ topic' = <<>>
          /\ questions' = JsonArray(<<>>)
          /\ DOMAIN answers' = {}
          /\ currentIndex' = 0
          /\ result' = Null
          /\ error' = Null]_vars

\* a reset ran and the result screen is gone
C14_Witness ==
    /\ lastEvent = "resetApp"
    /\ ~ResetButtonRendered
    /\ result = Null
    /\ topic = <<>>

\* the declared shape of a question response: a non-empty array of questions
MatchesDeclaredShape(value) == value.isArray /\ Len(value.items) >= 1

\* the last step completed a question request whose response text is valid
\* JSON of another shape
ReceivedMismatchedJson ==
    /\ lastEvent \in {"generateQuestions resolved", "generateQuestions rejected"}
    /\ lastResponse.ok
    /\ JSONParse(lastResponse.text).ok
    /\ ~MatchesDeclaredShape(JSONParse(lastResponse.text).value)

\* C15: a question response that is valid JSON of the wrong shape makes
\* generateQuestions fail: the flow goes to START with an error and does not
\* enter ANSWERING.
C15_ShapeMismatchFails ==
    ReceivedMismatchedJson =>
        /\ lastEvent = "generateQuestions rejected"
        /\ stage = START
        /\ Truthy(error)

\* the last step completed a backend request whose response carries no text
ReceivedNoText ==
    /\ lastEvent \in {"generateQuestions resolved", "generateQuestions rejected",
                      "analyzeDecision resolved", "analyzeDecision rejected"}
    /\ lastResponse.ok
    /\ FalsyText(lastResponse.text)

\* C16: a response with no text makes generateQuestions and analyzeDecision
\* reject: the flow returns to START with an error and the stage becomes
\* neither ANSWERING nor RESULT.
C16_EmptyResponseFails ==
    ReceivedNoText =>
        /\ lastEvent \in {"generateQuestions rejected", "analyzeDecision rejected"}
        /\ stage = START
        /\ Truthy(error)

\* p is a generation or analysis request that this step makes
RequestMade(p) ==
    /\ p.pc \in {"generateQuestions", "analyzeDecision"}
    /\ CopiesIn(p, procs') > CopiesIn(p, procs)

\* a credential that is undefined, the placeholder "undefined", or blank
AbsentCredential(key) ==
    ~Truthy(key) \/ key.text = <<"undefined">> \/ Trim(key.text) = <<>>

\* C17: a generation or analysis request made while the credential is
\* undefined, the literal "undefined" or blank does not call the backend.
C17_AbsentCredentialNotSent ==
    [][\A p \in BagToSet(procs') :
          (RequestMade(p) /\ AbsentCredential(apiKey')) => ~p.sent]_vars

\* the number of suspended functions of a bag that are at one of the places pcs
CountAt(bag, pcs) ==
    BagCardinality([p \in {q \in BagToSet(bag) : q.pc \in pcs} |-> CopiesIn(p, bag)])

\* invocations of generateQuestions / analyzeDecision that have not completed
Invocations(bag) == CountAt(bag, {"generateQuestions", "analyzeDecision"})

\* accepted submissions that still await the host before their invocation
AwaitingHost(bag) == CountAt(bag, {"hasSelectedApiKey", "openSelectKey"})

\* the steps in which the user submits: topic submit, advance from the last question
SubmissionEvents == {"startDecisionProcess", "handleNext"}

\* the steps in which an invocation resolves or rejects
InvocationEnds ==
    {"generateQuestions resolved", "generateQuestions rejected",
     "generateQuestions rejected, awaiting openSelectKey",
     "analyzeDecision resolved", "analyzeDecision rejected"}

\* the steps in which the credential re-selection of a rejected request ends
ReselectionEnds == {"catch openSelectKey resolved", "catch openSelectKey rejected"}

\* C18: an accepted submission makes at most one invocation (invocations rise
\* by one at a time, in the step that accepts a submission or in which a
\* submission leaves its host check; the end of an invocation and the
\* credential re-selection after a rejection make none), and the step that
\* follows the handling of a failure puts a backend call in flight only if it
\* is a new submission by the user.
C18_NoCallUntilResubmission ==
    [][/\ (Invocations(procs') > Invocations(procs)) =>
             /\ Invocations(procs') = Invocations(procs) + 1
             /\ \/ lastEvent' \in SubmissionEvents
                \/ AwaitingHost(procs') = AwaitingHost(procs) - 1
       /\ (lastEvent' \in InvocationEnds) =>
             /\ Invocations(procs') = Invocations(procs) - 1
             /\ AwaitingHost(procs') = AwaitingHost(procs)
       /\ (lastEvent' \in ReselectionEnds) =>
             /\ Invocations(procs') = Invocations(procs)
             /\ AwaitingHost(procs') = AwaitingHost(procs)
       /\ (FailureHandled /\ InFlight' > InFlight) =>
             lastEvent' \in SubmissionEvents]_vars

\* the last step handled a request that failed for its credential: the client
\* found none (nothing was sent), or the backend rejected the one it was given
CredentialFailureHandled ==
    /\ lastEvent \in {"generateQuestions rejected", "analyzeDecision rejected"}
    /\ \/ lastResponse = NoResponse
       \/ ~lastResponse.ok /\ IsEntityNotFound(lastResponse.message)

\* C19: without window.aistudio a credential failure leaves the flow in START
\* with the error shown and the submission available, and the credential
\* screen is not entered.
C19_NoHostFailureSurfaced ==
    (~hasAistudio /\ CredentialFailureHandled) =>
        /\ stage = START
        /\ ErrorRendered
        /\ StartRendered
        /\ ~SubmitDisabled
        /\ ~needsKey

\* the result is stored only while the stage is RESULT
ResultOnlyInResultStage == stage # RESULT => result = Null

\* C20: the result is absent whenever the stage is not RESULT, and a stored
\* result changes only by a reset.
C20_ResultOnlyInResult ==
    [][/\ ResultOnlyInResultStage'
       /\ (result # Null /\ result' # result) => lastEvent' = "resetApp"]_vars

\* C21: a submission (topic submit, or advance from the last question) made
\* while the credential is absent and window.aistudio is present puts no
\* backend call in flight by itself: the host is asked first.
C21_HostAskedBeforeCall ==
    [][(lastEvent' \in SubmissionEvents /\ AbsentCredential(apiKey) /\ hasAistudio)
          => InFlight' <= InFlight]_vars

\* the messages that tell the user to select a credential or to start again
RetryInstructions == {SelectKeyAgain, RetryStart, ConnectionTrouble}

\* the last step ended the handling of a question request that the backend
\* rejected with the entity-not-found error
EntityNotFoundHandled ==
    \/ /\ lastEvent = "generateQuestions rejected"
       /\ ~lastResponse.ok
       /\ IsEntityNotFound(lastResponse.message)
    \/ lastEvent \in ReselectionEnds

\* C22: after a question request rejected with the entity-not-found error the
\* flow is in START and the error is a retry instruction, not the backend's
\* message.
C22_EntityNotFoundAsksRetry ==
    EntityNotFoundHandled =>
        /\ stage = START
        /\ error \in RetryInstructions
        /\ ~Includes(error, EntityNotFound)

\* the generic messages shown when a rejection carries none
GenericFallbacks == {GenerationFallback, AnalysisFallback, AnalysisFailed}

\* the last step handled a rejection by the backend that is not the
\* entity-not-found error
UnclassifiedRejection ==
    /\ lastEvent \in {"generateQuestions rejected", "analyzeDecision rejected"}
    /\ lastResponse \in {Rejected(m) : m \in BackendErrors}
    /\ ~IsEntityNotFound(lastResponse.message)

\* C23: after such a rejection, of a question request or of an analysis
\* request, the error is the rejection's message when that is non-empty and
\* a generic fallback otherwise, and it is never empty.
C23_MessagePassedThrough ==
    UnclassifiedRejection =>
        /\ Truthy(error)
        /\ IF Truthy(lastResponse.message)
           THEN error = lastResponse.message
           ELSE error \in GenericFallbacks

\* the step is a selection of an option
OptionSelected == lastEvent' = "handleAnswer"

\* C24: a selection in ANSWERING records one of the current question's
\* options under that question's id, replacing an earlier answer, and leaves
\* the index, the stage, the question list and all other answers unchanged.
C24_SelectionRecordsAnswer ==
    [][OptionSelected =>
          /\ stage = ANSWERING
          /\ DOMAIN answers' = DOMAIN answers \cup {CurrentQuestion.id}
          /\ \E i \in 1..Len(CurrentQuestion.options) :
                answers'[CurrentQuestion.id] = CurrentQuestion.options[i]
          /\ \A k \in DOMAIN answers \ {CurrentQuestion.id} : answers'[k] = answers[k]
          /\ currentIndex' = currentIndex
          /\ stage' = stage
          /\ questions' = questions]_vars

\* an option of the second question was selected while the first question
\* holds an answer
C24_Witness ==
    /\ lastEvent = "handleAnswer"
    /\ stage = ANSWERING
    /\ currentIndex = 1
    /\ DOMAIN answers = {1, 2}
    /\ answers[2] = "x"

\* C25: the answer map changes only in a selection, which adds the entry of
\* the current question, or in a reset, which empties it; submit, advance, go
\* back, error dismissal and the completion of any call leave it unchanged.
C25_AnswersOnlyBySelection ==
    [][(answers' # answers) =>
          \/ /\ lastEvent' = "handleAnswer"
             /\ stage = ANSWERING
             /\ DOMAIN answers' = DOMAIN answers \cup {CurrentQuestion.id}
          \/ /\ lastEvent' = "resetApp"
             /\ DOMAIN answers' = {}]_vars

\* a question list arrived while the answer map holds an entry
C25_Witness ==
    /\ lastEvent = "generateQuestions resolved"
    /\ stage = ANSWERING
    /\ DOMAIN answers # {}

\* the stages that follow the reception of the question list
StagesWithQuestions == {ANSWERING, ANALYZING, RESULT}

\* C26: in ANSWERING, ANALYZING and RESULT the question list changes only by
\* a reset.
C26_QuestionsImmutable ==
    [][(stage \in StagesWithQuestions /\ questions' # questions)
          => lastEvent' = "resetApp"]_vars

\* the lines of a transcript: the fragments between line breaks
RECURSIVE LinesOf(_)
LinesOf(transcript) ==
    IF transcript = <<>> THEN <<>>
    ELSE IF \E i \in 1..Len(transcript) : transcript[i] = "\n"
    THEN LET first == CHOOSE i \in 1..Len(transcript) :
                         /\ transcript[i] = "\n"
                         /\ \A j \in 1..(i - 1) : transcript[j] # "\n"
         IN  <<SubSeq(transcript, 1, first - 1)>>
                 \o LinesOf(SubSeq(transcript, first + 1, Len(transcript)))
    ELSE <<transcript>>

\* the transcript analyzeDecision builds from the list and answers of the state
StateTranscript == LinesOf(Context(questions.items, answers))

\* C27: the transcript has one line per question of the list, in list order;
\* line i pairs the text of question i with the answer recorded under its id,
\* or with the marker undefined when there is none.
C27_TranscriptLinePerQuestion ==
    (questions.isArray /\ QuestionCount >= 1) =>
        /\ Len(StateTranscript) = QuestionCount
        /\ \A i \in 1..QuestionCount :
              LET q == questions.items[i]
              IN  StateTranscript[i] =
                     <<"Q: ", q.text, " | A: ",
                       IF q.id \in DOMAIN answers THEN answers[q.id] ELSE "undefined">>

\* the analysis was requested for a list of MaxQuestions questions
C27_Witness ==
    /\ lastEvent = "handleNext"
    /\ stage = ANALYZING
    /\ questions.isArray
    /\ QuestionCount = MaxQuestions
    /\ Len(StateTranscript) = MaxQuestions

\* the questions of the current list, none when the stored value is no array
CurrentList == IF questions.isArray THEN questions.items ELSE <<>>

\* C28: every entry of the answer map belongs to the current question list:
\* its key is the id of a question of the list and its value is one of that
\* question's options.
C28_AnswersBelongToList ==
    \A k \in DOMAIN answers :
        \E i \in 1..Len(CurrentList) :
            /\ CurrentList[i].id = k
            /\ \E j \in 1..Len(CurrentList[i].options) :
                  answers[k] = CurrentList[i].options[j]

DistinctIds(list) ==
    \A i, j \in 1..Len(list) : list[i].id = list[j].id => i = j

\* C29: whenever the flow enters ANALYZING with a list of distinct ids, every
\* question of the list has an entry in the answer map.
C29_AnalysisCoversAllQuestions ==
    [][(stage # ANALYZING /\ stage' = ANALYZING /\ DistinctIds(CurrentList'))
          => \A i \in 1..Len(CurrentList') : CurrentList'[i].id \in DOMAIN answers']_vars

\* the analysis was requested for the reversed list of MaxQuestions questions
C29_Witness ==
    /\ lastEvent = "handleNext"
    /\ stage = ANALYZING
    /\ Len(CurrentList) = MaxQuestions
    /\ DistinctIds(CurrentList)
    /\ CurrentList[1].id = MaxQuestions
    /\ DOMAIN answers = 1..MaxQuestions

\* a submission was accepted and its analysis call is still to come
RoundOpen ==
    \/ \E p \in BagToSet(procs) : p.kind = "startDecisionProcess"
    \/ stage \in {GENERATING_QUESTIONS, ANSWERING}

\* C30: the topic does not change between the accepted submission and the
\* analysis call, so the analysis request carries the topic that was sent with
\* the question-generation request of the round.
C30_TopicFixedDuringRound ==
    [][RoundOpen => topic' = topic]_vars

\* the steps in which a failed generation or analysis falls back to START
FallsBackToStart ==
    /\ lastEvent' \in {"generateQuestions rejected", "analyzeDecision rejected",
                       "catch openSelectKey resolved"}
    /\ stage' = START

\* C31: a failure fallback to START leaves the topic as it was.
C31_FallbackKeepsTopic ==
    [][FallsBackToStart => topic' = topic]_vars

\* an analysis failed and the submitted topic is still in the field
C31_Witness ==
    /\ lastEvent = "analyzeDecision rejected"
    /\ stage = START
    /\ Truthy(error)
    /\ topic = <<" ", "trip">>

\* C32: an error message is present only in START: in every other stage the
\* error is null.
C32_ErrorOnlyInStart == (stage # START) => ~Truthy(error)

\* the steps in which a host call of the check before the request rejects
HostCheckRejected ==
    lastEvent' \in {"hasSelectedApiKey rejected", "openSelectKey rejected"}

\* C33: when hasSelectedApiKey or openSelectKey rejects during the check made
\* before a question-generation request, the flow goes to
\* GENERATING_QUESTIONS, generateQuestions is invoked, and the error is left
\* as it was.
C33_HostRejectionDoesNotAbort ==
    [][HostCheckRejected =>
          /\ stage' = GENERATING_QUESTIONS
          /\ CountAt(procs', {"generateQuestions"}) = CountAt(procs, {"generateQuestions"}) + 1
          /\ AwaitingHost(procs') = AwaitingHost(procs) - 1
          /\ error' = error]_vars

\* the host check rejected and the submission went on to the generation call
C33_Witness ==
    /\ lastEvent = "hasSelectedApiKey rejected"
    /\ stage = GENERATING_QUESTIONS
    /\ ~Truthy(error)
    /\ \E p \in BagToSet(procs) : p.pc = "generateQuestions" /\ p.topic = <<" ", "trip">>

\* the steps in which the user submits, selects, advances, goes back or resets
FlowActionEvents ==
    {"startDecisionProcess", "handleAnswer", "handleNext", "handlePrev", "resetApp"}

\* the steps in which the host key dialog of the credential screen ends
KeyDialogEnds == {"handleOpenKeyDialog resolved", "handleOpenKeyDialog rejected"}

\* C34: while needsKey is true no flow action is taken; when the host key
\* dialog of the credential screen closes, needsKey becomes false whether or
\* not a key was chosen, and the end of the dialog leaves stage, topic,
\* questions, answers, index, result and error unchanged.
C34_CredentialScreen ==
    [][/\ needsKey => lastEvent' \notin FlowActionEvents
       /\ (lastEvent' = "handleOpenKeyDialog resolved") => ~needsKey'
       /\ (lastEvent' \in KeyDialogEnds) =>
             /\ variant = "V1"
             /\ stage' = stage
             /\ topic' = topic
             /\ questions' = questions
             /\ answers' = answers
             /\ currentIndex' = currentIndex
             /\ result' = result
             /\ error' = error]_vars

\* the dialog closed without a key after a rejected credential: the flow
\* screen is back with the message of the failure
C34_Witness ==
    /\ lastEvent = "handleOpenKeyDialog resolved"
    /\ ~needsKey
    /\ isMissing(apiKey)
    /\ stage = START
    /\ topic = <<" ", "trip">>
    /\ Truthy(error)

====
